---- MODULE Spec2Model ----
(***************************************************************************)
(* Flux: lexer, recursive-descent parser, tree-walking evaluator, built-in *)
(* registry and the <flux> tag handler of src/lang/flux.js.                *)
(*                                                                         *)
(* Source text and tokens are strings; the character at index i of s is    *)
(* SubSeq(s, i, i).  JavaScript indices are 0-based, the indices here are  *)
(* 1-based.                                                                *)
(***************************************************************************)
EXTENDS Integers, Sequences, FiniteSets, TLC

(***************************************************************************)
(* Character classes of the token pattern.                                 *)
(***************************************************************************)
Letters ==
    {"a","b","c","d","e","f","g","h","i","j","k","l","m",
     "n","o","p","q","r","s","t","u","v","w","x","y","z",
     "A","B","C","D","E","F","G","H","I","J","K","L","M",
     "N","O","P","Q","R","S","T","U","V","W","X","Y","Z","_"}

Digits == {"0","1","2","3","4","5","6","7","8","9"}

\* \w
WordChars == Letters \cup Digits

\* \s (the ASCII members)
Spaces == {" ", "\t", "\n", "\r", "\f"}

\* [+\-*/=();,{}<>]
PunctChars == {"+","-","*","/","=","(",")",";",",","{","}","<",">"}

CharAt(s, i) == IF i >= 1 /\ i <= Len(s) THEN SubSeq(s, i, i) ELSE ""

(***************************************************************************)
(* keywords / isKeyword                                                    *)
(***************************************************************************)
keywords ==
    {"if","else","elseif","switch","case","default","while","for","break",
     "continue","return",
     "let","const","var","mutable","static",
     "function","fn","lambda","async","await",
     "int","float","string","bool","object","array","enum","class",
     "try","catch","finally","throw",
     "and","or","not","is","in","mod",
     "import","export","package","module","include",
     "extends","super","this","interface","abstract",
     "true","false","null","new","delete"}

isKeyword(word) == word \in keywords

(***************************************************************************)
(* lexer: the alternatives of tokenPattern's group, each as the index one  *)
(* past the end of its greedy match starting at q, or q when it does not   *)
(* match there.                                                            *)
(***************************************************************************)
RECURSIVE SkipWhile(_, _, _)
\* greedy X* : first index >= i whose character is not in cls
SkipWhile(s, i, cls) ==
    IF i <= Len(s) /\ CharAt(s, i) \in cls THEN SkipWhile(s, i + 1, cls) ELSE i

RECURSIVE SkipUntil(_, _, _)
\* greedy [^c]* : first index >= i whose character is c, or Len(s)+1
SkipUntil(s, i, c) ==
    IF i <= Len(s) /\ CharAt(s, i) # c THEN SkipUntil(s, i + 1, c) ELSE i

\* [A-Za-z_]\w*
AltIdent(s, q) ==
    IF CharAt(s, q) \in Letters THEN SkipWhile(s, q + 1, WordChars) ELSE q

\* \d+(\.\d+)?
AltNumber(s, q) ==
    IF CharAt(s, q) \in Digits
    THEN LET e == SkipWhile(s, q, Digits)
             f == SkipWhile(s, e + 1, Digits)
         IN  IF CharAt(s, e) = "." /\ CharAt(s, e + 1) \in Digits THEN f ELSE e
    ELSE q

\* "[^"]*"  and  '[^']*'
AltQuoted(s, q, quote) ==
    IF CharAt(s, q) = quote
    THEN LET e == SkipUntil(s, q + 1, quote)
         IN  IF e <= Len(s) THEN e + 1 ELSE q
    ELSE q

\* [+\-*/=();,{}<>]
AltPunct(s, q) == IF CharAt(s, q) \in PunctChars THEN q + 1 ELSE q

\* a literal alternative such as ==
AltLiteral(s, q, lit) ==
    IF q + Len(lit) - 1 <= Len(s) /\ SubSeq(s, q, q + Len(lit) - 1) = lit
    THEN q + Len(lit) ELSE q

\* the alternatives after the two quoted forms, in the pattern's order
OperatorAlternatives == <<"==", "!=", "<=", ">=", "&&", "||", "!">>

RECURSIVE FirstLiteral(_, _, _, _)
FirstLiteral(s, q, lits, k) ==
    IF k > Len(lits) THEN q
    ELSE IF AltLiteral(s, q, lits[k]) > q THEN AltLiteral(s, q, lits[k])
    ELSE FirstLiteral(s, q, lits, k + 1)

\* Ordered alternation: the first alternative that matches at q wins; what
\* follows the group (\s*) always matches, so no later alternative is tried.
GroupEnd(s, q) ==
    IF AltIdent(s, q) > q THEN AltIdent(s, q)
    ELSE IF AltNumber(s, q) > q THEN AltNumber(s, q)
    ELSE IF AltQuoted(s, q, "\"") > q THEN AltQuoted(s, q, "\"")
    ELSE IF AltQuoted(s, q, "'") > q THEN AltQuoted(s, q, "'")
    ELSE IF AltPunct(s, q) > q THEN AltPunct(s, q)
    ELSE FirstLiteral(s, q, OperatorAlternatives, 1)

RECURSIVE NextMatch(_, _)
\* tokenPattern.exec from lastIndex: the pattern is not anchored, so the
\* search moves on over every position at which the group does not match.
\* Result: the position of the group's match, or Len(s)+1 when exec is null.
NextMatch(s, lastIndex) ==
    IF lastIndex > Len(s) THEN Len(s) + 1
    ELSE IF GroupEnd(s, lastIndex) > lastIndex THEN lastIndex
    ELSE NextMatch(s, lastIndex + 1)

RECURSIVE LexLoop(_, _, _)
\* while ((match = tokenPattern.exec(input)) !== null) tokens.push(match[1])
LexLoop(input, lastIndex, tokens) ==
    LET q == NextMatch(input, lastIndex)
    IN  IF q > Len(input) THEN tokens
        ELSE LET e == GroupEnd(input, q)
             IN  LexLoop(input, SkipWhile(input, e, Spaces),
                         Append(tokens, SubSeq(input, q, e - 1)))

lexer(input) == LexLoop(input, 1, <<>>)

(***************************************************************************)
(* Runtime values.  A value is a record tagged with its typeof-like shape. *)
(* A number is the rational n/d in lowest terms with d > 0, or one of the  *)
(* three non-finite doubles written with d = 0: NaN = 0/0, Infinity = 1/0, *)
(* -Infinity = -1/0.  The rounding of doubles is outside the model, and   *)
(* so is -0.  A function value is named by its key in builtInFunctions.    *)
(***************************************************************************)
Undefined == [t |-> "undefined"]
Null == [t |-> "null"]
Bool(b) == [t |-> "boolean", v |-> b]
Str(s) == [t |-> "string", v |-> s]
Fn(name) == [t |-> "function", v |-> name]

Abs(i) == IF i < 0 THEN -i ELSE i
Sign(i) == IF i < 0 THEN -1 ELSE IF i > 0 THEN 1 ELSE 0

RECURSIVE Gcd(_, _)
Gcd(a, b) == IF b = 0 THEN a ELSE Gcd(b, a % b)

\* the number n/d, d possibly negative or zero, in the canonical form
Num(n, d) ==
    IF d = 0 THEN [t |-> "number", n |-> Sign(n), d |-> 0]
    ELSE LET g == Gcd(Abs(n), Abs(d))
         IN  [t |-> "number", n |-> (Sign(d) * n) \div g, d |-> Abs(d) \div g]

NaN == Num(0, 0)
Infinity == Num(1, 0)
Whole(i) == Num(i, 1)

IsNaN(a) == a.n = 0 /\ a.d = 0
IsFinite(a) == a.d # 0

RECURSIVE Pow10(_)
Pow10(k) == IF k = 0 THEN 1 ELSE 10 * Pow10(k - 1)

DigitValue(c) ==
    CASE c = "0" -> 0 [] c = "1" -> 1 [] c = "2" -> 2 [] c = "3" -> 3
      [] c = "4" -> 4 [] c = "5" -> 5 [] c = "6" -> 6 [] c = "7" -> 7
      [] c = "8" -> 8 [] c = "9" -> 9

RECURSIVE DigitsValue(_, _, _)
\* the value of the decimal digits s[i..Len(s)], continuing from acc
DigitsValue(s, i, acc) ==
    IF i > Len(s) THEN acc
    ELSE DigitsValue(s, i + 1, 10 * acc + DigitValue(CharAt(s, i)))

\* s consists of decimal digits only (possibly none)
AllDigits(s) == SkipWhile(s, 1, Digits) > Len(s)

\* Number(token) for the token shapes the lexer produces.  A token is an
\* identifier, \d+(\.\d+)?, a quoted literal, a punctuation character or an
\* operator; of these only \d+(\.\d+)? and the identifier Infinity convert
\* to a number, every other one to NaN.
TokenToNumber(token) ==
    LET e == SkipWhile(token, 1, Digits)
    IN  IF token = "Infinity" THEN Infinity
        ELSE IF e = 1 THEN NaN
        ELSE IF e > Len(token) THEN Whole(DigitsValue(token, 1, 0))
        ELSE IF CharAt(token, e) = "." /\ e < Len(token)
                /\ AllDigits(SubSeq(token, e + 1, Len(token)))
        THEN Num(DigitsValue(SubSeq(token, 1, e - 1)
                             \o SubSeq(token, e + 1, Len(token)), 1, 0),
                 Pow10(Len(token) - e))
        ELSE NaN

(***************************************************************************)
(* parser.  Every parse function takes the position and returns a record:  *)
(* ok = TRUE with the node built and the position reached, or ok = FALSE   *)
(* with the message of the Error thrown (a throw unwinds the whole parse). *)
(***************************************************************************)
NoNode == [type |-> "none"]
Parsed(node, pos) == [ok |-> TRUE, node |-> node, pos |-> pos, err |-> ""]
Thrown(msg, pos) == [ok |-> FALSE, node |-> NoNode, pos |-> pos, err |-> msg]

\* tokens[pos]; the string "undefined" is what a template literal prints for
\* a read past the end, and no token has that text unless the source has it
AtEnd(tokens, pos) == pos > Len(tokens)
peek(tokens, pos) == IF AtEnd(tokens, pos) THEN Undefined ELSE Str(tokens[pos])
Shown(v) == IF v.t = "undefined" THEN "undefined" ELSE v.v

\* consume(expected): throws when the token differs from expected
consume(tokens, pos, expected) ==
    IF peek(tokens, pos) # Str(expected)
    THEN Thrown("Expected \"" \o expected \o "\" but got \""
                \o Shown(peek(tokens, pos)) \o "\"", pos)
    ELSE Parsed(NoNode, pos + 1)

\* name.match(/^[A-Za-z_]\w*$/)
IsIdentifier(name) ==
    /\ CharAt(name, 1) \in Letters
    /\ SkipWhile(name, 2, WordChars) > Len(name)

parsePrimary(tokens, pos) ==
    IF AtEnd(tokens, pos) THEN Thrown("Unexpected end of input", pos)
    ELSE LET token == tokens[pos]
         IN  IF ~IsNaN(TokenToNumber(token))
             THEN Parsed([type |-> "number", value |-> TokenToNumber(token)],
                         pos + 1)
             ELSE IF CharAt(token, 1) = "\"" \/ CharAt(token, 1) = "'"
             THEN Parsed([type |-> "string",
                          value |-> Str(SubSeq(token, 2, Len(token) - 1))],
                         pos + 1)
             ELSE IF isKeyword(token)
             THEN IF token \in {"true", "false", "null"}
                  THEN Parsed([type |-> "literal",
                               value |-> IF token = "true" THEN Bool(TRUE)
                                         ELSE IF token = "false" THEN Bool(FALSE)
                                         ELSE Null],
                              pos + 1)
                  ELSE Parsed([type |-> "keyword", value |-> token], pos + 1)
             ELSE Parsed([type |-> "variable", name |-> token], pos + 1)

BinaryOperators == {"+", "-", "*", "/", "==", "!="}

RECURSIVE parseExpression(_, _)
RECURSIVE parseArguments(_, _, _)
RECURSIVE parseCallSuffixes(_, _, _)
RECURSIVE parseOperators(_, _, _)

\* Each step of a parse function that follows a call of another one is an
\* operator of its own, which takes the result of that call.

\* ... while (peek() === "," && consume(","))
\* the node returned carries the argument list in its field arguments
argumentsAfter(tokens, args, a) ==
    IF ~a.ok THEN a
    ELSE IF peek(tokens, a.pos) = Str(",")
    THEN parseArguments(tokens, a.pos + 1, Append(args, a.node))
    ELSE Parsed([type |-> "arguments", arguments |-> Append(args, a.node)], a.pos)

\* do { args.push(parseExpression()) } while ...
parseArguments(tokens, pos, args) ==
    argumentsAfter(tokens, args, parseExpression(tokens, pos))

\* consume(")"); expr = { type: "call", callee: expr, arguments: args }
callAfter(tokens, expr, args, close) ==
    IF ~close.ok THEN close
    ELSE parseCallSuffixes(tokens, close.pos,
             [type |-> "call", callee |-> expr, arguments |-> args.node.arguments])

closeAfter(tokens, expr, args) ==
    IF ~args.ok THEN args
    ELSE callAfter(tokens, expr, args, consume(tokens, args.pos, ")"))

\* while (true) { if (peek() === "(") { consume("("); ... } else break; }
parseCallSuffixes(tokens, pos, expr) ==
    IF peek(tokens, pos) # Str("(") THEN Parsed(expr, pos)
    ELSE closeAfter(tokens, expr,
             IF peek(tokens, pos + 1) # Str(")")
             THEN parseArguments(tokens, pos + 1, <<>>)
             ELSE Parsed([type |-> "arguments", arguments |-> <<>>], pos + 1))

suffixesAfter(tokens, expr) ==
    IF ~expr.ok THEN expr ELSE parseCallSuffixes(tokens, expr.pos, expr.node)

parseCall(tokens, pos) == suffixesAfter(tokens, parsePrimary(tokens, pos))

\* left = { type: "binary", operator, left, right }
binaryAfter(tokens, operator, left, right) ==
    IF ~right.ok THEN right
    ELSE parseOperators(tokens, right.pos,
             [type |-> "binary", operator |-> operator, left |-> left,
              right |-> right.node])

\* a loop that took the whole rest of the expression as its right operand
\* would group the operators to the right:  a op1 (b op2 c)
parseOperatorsToTheRight(tokens, pos, left) ==
    IF AtEnd(tokens, pos) \/ tokens[pos] \notin BinaryOperators
    THEN Parsed(left, pos)
    ELSE LET right == parseExpression(tokens, pos + 1)
         IN  IF ~right.ok THEN right
             ELSE Parsed([type |-> "binary", operator |-> tokens[pos],
                          left |-> left, right |-> right.node], right.pos)

\* while (peek() is one of + - * / == !=) { operator = consume(); right = parseCall(); ... }
parseOperators(tokens, pos, left) ==
    IF AtEnd(tokens, pos) \/ tokens[pos] \notin BinaryOperators
    THEN Parsed(left, pos)
    ELSE binaryAfter(tokens, tokens[pos], left, parseCall(tokens, pos + 1))

operatorsAfter(tokens, left) ==
    IF ~left.ok THEN left ELSE parseOperators(tokens, left.pos, left.node)

parseExpression(tokens, pos) == operatorsAfter(tokens, parseCall(tokens, pos))

DeclarationKinds == {"let", "const", "var"}

\* consume(";"); return the statement node
statementAfter(node, semi) == IF ~semi.ok THEN semi ELSE Parsed(node, semi.pos)

declarationAfter(tokens, kind, name, expr) ==
    IF ~expr.ok THEN expr
    ELSE statementAfter([type |-> "var_decl", kind |-> kind, name |-> name,
                         expr |-> expr.node],
                        consume(tokens, expr.pos, ";"))

initializerAfter(tokens, kind, name, eq) ==
    IF ~eq.ok THEN eq
    ELSE declarationAfter(tokens, kind, name, parseExpression(tokens, eq.pos))

expressionStatementAfter(tokens, expr) ==
    IF ~expr.ok THEN expr
    ELSE statementAfter([type |-> "expr_stmt", expr |-> expr.node],
                        consume(tokens, expr.pos, ";"))

parseStatement(tokens, pos) ==
    IF ~AtEnd(tokens, pos) /\ tokens[pos] \in DeclarationKinds
    THEN \* name = consume() reads past the end as undefined, and
         \* name.match on undefined is a TypeError
         IF AtEnd(tokens, pos + 1)
         THEN Thrown("TypeError: name is undefined", pos + 2)
         ELSE IF ~IsIdentifier(tokens[pos + 1])
         THEN Thrown("Invalid variable name", pos + 2)
         ELSE initializerAfter(tokens, tokens[pos], tokens[pos + 1],
                               consume(tokens, pos + 2, "="))
    ELSE expressionStatementAfter(tokens, parseExpression(tokens, pos))

RECURSIVE parseProgram(_, _, _)

programAfter(tokens, statements, st) ==
    IF ~st.ok THEN st
    ELSE parseProgram(tokens, st.pos, Append(statements, st.node))

\* while (!isAtEnd()) statements.push(parseStatement())
\* the node returned carries the statement list in its field statements
parseProgram(tokens, pos, statements) ==
    IF AtEnd(tokens, pos)
    THEN Parsed([type |-> "program", statements |-> statements], pos)
    ELSE programAfter(tokens, statements, parseStatement(tokens, pos))

parser(tokens) == parseProgram(tokens, 1, <<>>)

(***************************************************************************)
(* The JavaScript operations the evaluator and the built-ins rest on.      *)
(* Where a result lies outside the value domain above (an irrational root, *)
(* a non-terminating decimal expansion, an exponent or radix literal) the  *)
(* operator is undefined there: a run that needed it stops with an error  *)
(* instead of continuing with a guessed value.                             *)
(***************************************************************************)
Unmodelled(what) == CHOOSE u \in {} : u = what

NumAdd(a, b) ==
    IF IsNaN(a) \/ IsNaN(b) THEN NaN
    ELSE IF ~IsFinite(a) /\ ~IsFinite(b) THEN (IF a.n = b.n THEN a ELSE NaN)
    ELSE IF ~IsFinite(a) THEN a
    ELSE IF ~IsFinite(b) THEN b
    ELSE Num(a.n * b.d + b.n * a.d, a.d * b.d)

NumNeg(a) == Num(-a.n, a.d)
\* a - b; b is not -0, so a + (-b) has the sign of zero that a - b has
NumSub(a, b) == NumAdd(a, NumNeg(b))
\* -a for a minus sign read from a string
SignedNeg(a) == IF a.n = 0 /\ a.d # 0 THEN Unmodelled("-0") ELSE NumNeg(a)

NumMul(a, b) ==
    IF IsFinite(a) /\ IsFinite(b) /\ a.n * b.n = 0 /\ (a.n < 0 \/ b.n < 0)
    THEN Unmodelled("-0")
    ELSE Num(a.n * b.n, a.d * b.d)
NumRecip(b) == IF b.n = 0 THEN (IF b.d = 0 THEN NaN ELSE Infinity) ELSE Num(b.d, b.n)
NumDiv(a, b) ==
    IF /\ ~IsNaN(a) /\ ~IsNaN(b)
       /\ \/ a.n = 0 /\ b.n < 0
          \/ IsFinite(a) /\ ~IsFinite(b) /\ a.n * b.n < 0
    THEN Unmodelled("-0")
    ELSE NumMul(a, NumRecip(b))
NumLess(a, b) == a.n * b.d < b.n * a.d

DigitChar(i) == CharAt("0123456789", i + 1)

RECURSIVE IntDigits(_)
IntDigits(i) == IF i < 10 THEN DigitChar(i) ELSE IntDigits(i \div 10) \o DigitChar(i % 10)

RECURSIVE StripFactor(_, _)
StripFactor(d, f) == IF d % f = 0 THEN StripFactor(d \div f, f) ELSE d

RECURSIVE DecimalPlaces(_, _)
\* the least k with d dividing 10^k, for d a product of 2s and 5s
DecimalPlaces(d, k) == IF Pow10(k) % d = 0 THEN k ELSE DecimalPlaces(d, k + 1)

RECURSIVE PadDigits(_, _)
PadDigits(str, k) == IF Len(str) >= k THEN str ELSE PadDigits("0" \o str, k)

\* Number::toString, radix 10
NumberToString(a) ==
    IF IsNaN(a) THEN "NaN"
    ELSE IF ~IsFinite(a) THEN (IF a.n > 0 THEN "Infinity" ELSE "-Infinity")
    ELSE LET sign == IF a.n < 0 THEN "-" ELSE ""
             m == Abs(a.n)
         IN  IF a.d = 1 THEN sign \o IntDigits(m)
             ELSE IF StripFactor(StripFactor(a.d, 2), 5) # 1 \/ m * 1000000 < a.d
             THEN Unmodelled("Number::toString")
             ELSE LET k == DecimalPlaces(a.d, 1)
                      scaled == m * (Pow10(k) \div a.d)
                  IN  sign \o IntDigits(scaled \div Pow10(k)) \o "."
                      \o PadDigits(IntDigits(scaled % Pow10(k)), k)

\* Function.prototype.toString: the source text of an arrow function of the
\* registry, the NativeFunction form for a platform function
FunctionSource(name) ==
    CASE name = "print" -> "(...args) => console.log(...args)"
      [] name = "len" -> "arg => arg.length"
      [] name = "int" -> "arg => parseInt(arg, 10)"
      [] name = "float" -> "arg => parseFloat(arg)"
      [] name = "str" -> "arg => String(arg)"
      [] name = "upper" -> "str => str.toUpperCase()"
      [] name = "lower" -> "str => str.toLowerCase()"
      [] name = "type" -> "arg => typeof arg"
      [] name = "toString" -> "arg => arg.toString()"
      [] name = "parseInt" -> "arg => parseInt(arg, 10)"
      [] name = "parseFloat" -> "arg => parseFloat(arg)"
      [] name = "slice" -> "(str, start, end) => str.slice(start, end)"
      [] name = "concat" -> "(a, b) => a.concat(b)"
      [] name = "input" -> "function prompt() { [native code] }"
      [] name \in {"sqrt", "pow", "abs", "random", "round", "isNaN"}
           -> "function " \o name \o "() { [native code] }"

\* the length property of a function: its number of declared parameters
\* up to the first rest parameter
FunctionLength(name) ==
    CASE name \in {"print", "random", "input"} -> 0
      [] name \in {"pow", "concat"} -> 2
      [] name = "slice" -> 3
      [] OTHER -> 1

JsToString(v) ==
    CASE v.t = "undefined" -> "undefined"
      [] v.t = "null" -> "null"
      [] v.t = "boolean" -> IF v.v THEN "true" ELSE "false"
      [] v.t = "number" -> NumberToString(v)
      [] v.t = "string" -> v.v
      [] v.t = "function" -> FunctionSource(v.v)

TrimStart(str) == SubSeq(str, SkipWhile(str, 1, Spaces), Len(str))

RECURSIVE TrimEnd(_)
TrimEnd(str) ==
    IF Len(str) > 0 /\ CharAt(str, Len(str)) \in Spaces
    THEN TrimEnd(SubSeq(str, 1, Len(str) - 1)) ELSE str

\* the decimal literal [digits][.digits] that str is, as a number; NaN when
\* str is not of that form
DecimalValue(str) ==
    LET e == SkipWhile(str, 1, Digits)
        hasDot == CharAt(str, e) = "."
        f == IF hasDot THEN SkipWhile(str, e + 1, Digits) ELSE e
        nDigits == (e - 1) + (IF hasDot THEN f - e - 1 ELSE 0)
    IN  IF nDigits = 0 THEN NaN
        ELSE IF f <= Len(str)
        THEN (IF CharAt(str, f) \in {"e", "E"}
                 \/ (SubSeq(str, 1, e - 1) = "0" /\ ~hasDot
                     /\ CharAt(str, f) \in {"x", "X", "o", "O", "b", "B"})
              THEN Unmodelled("StringToNumber") ELSE NaN)
        ELSE Num(DigitsValue(SubSeq(str, 1, e - 1)
                             \o (IF hasDot THEN SubSeq(str, e + 1, f - 1) ELSE ""),
                             1, 0),
                 IF hasDot THEN Pow10(f - e - 1) ELSE 1)

\* StringToNumber: Number(str)
StringToNumber(str) ==
    LET trimmed == TrimEnd(TrimStart(str))
        signed == CharAt(trimmed, 1) \in {"+", "-"}
        body == IF signed THEN SubSeq(trimmed, 2, Len(trimmed)) ELSE trimmed
        magnitude == IF body = "Infinity" THEN Infinity ELSE DecimalValue(body)
    IN  IF trimmed = "" THEN Whole(0)
        ELSE IF CharAt(trimmed, 1) = "-" THEN SignedNeg(magnitude) ELSE magnitude

ToNumber(v) ==
    CASE v.t = "undefined" -> NaN
      [] v.t = "null" -> Whole(0)
      [] v.t = "boolean" -> IF v.v THEN Whole(1) ELSE Whole(0)
      [] v.t = "number" -> v
      [] v.t = "string" -> StringToNumber(v.v)
      [] v.t = "function" -> NaN

\* ===
StrictEquals(a, b) ==
    /\ a.t = b.t
    /\ IF a.t = "number" THEN ~IsNaN(a) /\ a = b ELSE a = b

\* the + operator: concatenation when either operand is a string or a
\* function (whose primitive is its source text), addition otherwise
JsAdd(a, b) ==
    IF a.t \in {"string", "function"} \/ b.t \in {"string", "function"}
    THEN Str(JsToString(a) \o JsToString(b))
    ELSE NumAdd(ToNumber(a), ToNumber(b))

\* ToIntegerOrInfinity
Floor(a) == a.n \div a.d
Truncate(a) == IF a.n < 0 THEN -Floor(NumNeg(a)) ELSE Floor(a)

LowerCase == "abcdefghijklmnopqrstuvwxyz"
UpperCase == "ABCDEFGHIJKLMNOPQRSTUVWXYZ"

RECURSIVE IndexIn(_, _, _)
IndexIn(str, c, i) ==
    IF i > Len(str) THEN 0
    ELSE IF CharAt(str, i) = c THEN i ELSE IndexIn(str, c, i + 1)

RECURSIVE MapCase(_, _, _)
\* toUpperCase / toLowerCase on the ASCII letters
MapCase(str, from, to) ==
    IF str = "" THEN ""
    ELSE LET k == IndexIn(from, CharAt(str, 1), 1)
         IN  (IF k = 0 THEN CharAt(str, 1) ELSE CharAt(to, k))
             \o MapCase(SubSeq(str, 2, Len(str)), from, to)

\* parseInt(str, 10)
ParseInt(str) ==
    LET trimmed == TrimStart(str)
        signed == CharAt(trimmed, 1) \in {"+", "-"}
        body == IF signed THEN SubSeq(trimmed, 2, Len(trimmed)) ELSE trimmed
        e == SkipWhile(body, 1, Digits)
        magnitude == Whole(DigitsValue(SubSeq(body, 1, e - 1), 1, 0))
    IN  IF e = 1 THEN NaN
        ELSE IF CharAt(trimmed, 1) = "-" THEN SignedNeg(magnitude) ELSE magnitude

\* parseFloat(str): the longest prefix that is a decimal literal
ParseFloat(str) ==
    LET trimmed == TrimStart(str)
        signed == CharAt(trimmed, 1) \in {"+", "-"}
        body == IF signed THEN SubSeq(trimmed, 2, Len(trimmed)) ELSE trimmed
        e == SkipWhile(body, 1, Digits)
        hasDot == CharAt(body, e) = "."
        f == IF hasDot THEN SkipWhile(body, e + 1, Digits) ELSE e
        nDigits == (e - 1) + (IF hasDot THEN f - e - 1 ELSE 0)
        magnitude ==
            IF Len(body) >= 8 /\ SubSeq(body, 1, 8) = "Infinity" THEN Infinity
            ELSE IF nDigits = 0 THEN NaN
            ELSE IF CharAt(body, f) \in {"e", "E"} THEN Unmodelled("parseFloat")
            ELSE DecimalValue(SubSeq(body, 1, f - 1))
    IN  IF CharAt(trimmed, 1) = "-" THEN SignedNeg(magnitude) ELSE magnitude

RECURSIVE IntegerRoot(_, _)
\* the least r >= k with r*r >= m
IntegerRoot(m, k) == IF k * k >= m THEN k ELSE IntegerRoot(m, k + 1)

MathSqrt(a) ==
    IF IsNaN(a) \/ a.n < 0 THEN NaN
    ELSE IF ~IsFinite(a) THEN a
    ELSE LET rn == IntegerRoot(a.n, 0)
             rd == IntegerRoot(a.d, 0)
         IN  IF rn * rn = a.n /\ rd * rd = a.d THEN Num(rn, rd)
             ELSE Unmodelled("Math.sqrt")

RECURSIVE IntPower(_, _)
IntPower(b, k) == IF k = 0 THEN 1 ELSE b * IntPower(b, k - 1)

MathPow(base, exponent) ==
    IF IsNaN(exponent) THEN NaN
    ELSE IF exponent = Whole(0) THEN Whole(1)
    ELSE IF IsNaN(base) THEN NaN
    ELSE IF IsFinite(base) /\ IsFinite(exponent) /\ exponent.d = 1
    THEN (IF exponent.n > 0
          THEN Num(IntPower(base.n, exponent.n), IntPower(base.d, exponent.n))
          ELSE Num(IntPower(base.d, -exponent.n), IntPower(base.n, -exponent.n)))
    ELSE Unmodelled("Math.pow")

MathAbs(a) == Num(Abs(a.n), a.d)

\* floor(x + 1/2)
MathRound(a) ==
    IF ~IsFinite(a) THEN a
    ELSE IF a.n < 0 /\ Floor(NumAdd(a, Num(1, 2))) = 0 THEN Unmodelled("-0")
    ELSE Whole(Floor(NumAdd(a, Num(1, 2))))

\* String.prototype.slice(start, end)
StringSlice(str, start, end) ==
    LET len == Len(str)
        Position(v) ==
            LET x == ToNumber(v)
            IN  IF IsNaN(x) THEN 0
                ELSE IF ~IsFinite(x) THEN (IF x.n < 0 THEN 0 ELSE len)
                ELSE LET i == Truncate(x)
                     IN  IF i < 0 THEN (IF len + i < 0 THEN 0 ELSE len + i)
                         ELSE IF i > len THEN len ELSE i
        from == Position(start)
        to == IF end.t = "undefined" THEN len ELSE Position(end)
    IN  IF from >= to THEN "" ELSE SubSeq(str, from + 1, to)

(***************************************************************************)
(* builtInFunctions.  A call of a registry function is Invoke: the name    *)
(* selects the function's body.  Math.random and prompt are answered by    *)
(* the host: rs is the sequence of the host's answers to the calls of one  *)
(* statement, consumed in call order.                                      *)
(*                                                                         *)
(* An evaluation context c carries env (this.env), trace (the calls made   *)
(* of registry functions so far, each with its argument values), used (how *)
(* many host answers were consumed) and answered (every such call found an *)
(* answer of the right kind in rs).                                        *)
(***************************************************************************)
BuiltInNames ==
    {"print", "len", "sqrt", "pow", "abs", "int", "float", "str", "upper",
     "lower", "random", "input", "type", "round", "toString", "parseInt",
     "parseFloat", "isNaN", "slice", "concat"}

builtInFunctions == [name \in BuiltInNames |-> Fn(name)]

Returned(val, c) == [ok |-> TRUE, val |-> val, err |-> "", c |-> c]
Raised(msg, c) == [ok |-> FALSE, val |-> Undefined, err |-> msg, c |-> c]

\* a TypeError raised by the platform inside a built-in
TypeError == "TypeError"

\* the answer of the host to the next call of Math.random or prompt
HostAnswer(kind, c, rs) ==
    IF c.used < Len(rs) /\ rs[c.used + 1].t \in kind
    THEN Returned(rs[c.used + 1], [c EXCEPT !.used = @ + 1])
    ELSE Returned(Undefined, [c EXCEPT !.answered = FALSE])

\* callee(...args) for the registry function of that name
Invoke(name, args, c0, rs) ==
    LET c == [c0 EXCEPT !.trace = Append(@, [fn |-> name, args |-> args])]
        Arg(k) == IF k <= Len(args) THEN args[k] ELSE Undefined
        a == Arg(1)
        Nullish(v) == v.t \in {"undefined", "null"}
    IN  CASE name = "print" -> Returned(Undefined, c)
          [] name = "len" ->
               IF Nullish(a) THEN Raised(TypeError, c)
               ELSE IF a.t = "string" THEN Returned(Whole(Len(a.v)), c)
               ELSE IF a.t = "function" THEN Returned(Whole(FunctionLength(a.v)), c)
               ELSE Returned(Undefined, c)
          [] name = "sqrt" -> Returned(MathSqrt(ToNumber(a)), c)
          [] name = "pow" -> Returned(MathPow(ToNumber(a), ToNumber(Arg(2))), c)
          [] name = "abs" -> Returned(MathAbs(ToNumber(a)), c)
          [] name \in {"int", "parseInt"} -> Returned(ParseInt(JsToString(a)), c)
          [] name \in {"float", "parseFloat"} -> Returned(ParseFloat(JsToString(a)), c)
          [] name = "str" -> Returned(Str(JsToString(a)), c)
          [] name = "upper" ->
               IF a.t = "string" THEN Returned(Str(MapCase(a.v, LowerCase, UpperCase)), c)
               ELSE Raised(TypeError, c)
          [] name = "lower" ->
               IF a.t = "string" THEN Returned(Str(MapCase(a.v, UpperCase, LowerCase)), c)
               ELSE Raised(TypeError, c)
          [] name = "random" -> HostAnswer({"number"}, c, rs)
          [] name = "input" -> HostAnswer({"string", "null"}, c, rs)
          [] name = "type" ->
               Returned(Str(IF a.t = "null" THEN "object" ELSE a.t), c)
          [] name = "round" -> Returned(MathRound(ToNumber(a)), c)
          [] name = "toString" ->
               IF Nullish(a) THEN Raised(TypeError, c)
               ELSE Returned(Str(JsToString(a)), c)
          [] name = "isNaN" -> Returned(Bool(IsNaN(ToNumber(a))), c)
          [] name = "slice" ->
               IF a.t = "string"
               THEN Returned(Str(StringSlice(a.v, Arg(2), Arg(3))), c)
               ELSE Raised(TypeError, c)
          [] name = "concat" ->
               IF a.t = "string" THEN Returned(Str(a.v \o JsToString(Arg(2))), c)
               ELSE Raised(TypeError, c)

(***************************************************************************)
(* Interpreter.eval, one operator per case of the switch.  The result is   *)
(* the value returned with the context reached, or the message of the      *)
(* Error thrown with the context at the throw.                             *)
(***************************************************************************)
RECURSIVE eval(_, _, _)
RECURSIVE evalArguments(_, _, _, _, _)

\* this.env[name] = val
Bind(env, name, val) ==
    [k \in DOMAIN env \cup {name} |-> IF k = name THEN val ELSE env[k]]

evalVariable(node, c, rs) ==
    IF node.name \in DOMAIN c.env THEN Returned(c.env[node.name], c)
    ELSE Raised("Undefined variable '" \o node.name \o "'", c)

\* Each step of a case that follows a recursive call of eval is an operator
\* of its own, which takes the result of that call.

\* the next element of the map, unless this one threw
argumentsNext(arguments, k, vals, rs, arg) ==
    IF ~arg.ok THEN arg
    ELSE evalArguments(arguments, k + 1, Append(vals, arg.val), arg.c, rs)

\* node.arguments.map(arg => this.eval(arg)): in index order, stopping at
\* the first throw; the value returned is the sequence of argument values
evalArguments(arguments, k, vals, c, rs) ==
    IF k > Len(arguments) THEN Returned(vals, c)
    ELSE argumentsNext(arguments, k, vals, rs, eval(arguments[k], c, rs))

\* return callee(...args)
callWithArguments(name, rs, args) ==
    IF ~args.ok THEN args ELSE Invoke(name, args.val, args.c, rs)

\* a call that mapped the arguments before it tested the callee
callWithArgumentsFirst(node, rs, callee) ==
    IF ~callee.ok THEN callee
    ELSE LET args == evalArguments(node.arguments, 1, <<>>, callee.c, rs)
         IN  IF ~args.ok THEN args
             ELSE IF callee.val.t # "function"
             THEN Raised("Call of non-function", args.c)
             ELSE Invoke(callee.val.v, args.val, args.c, rs)

\* if (typeof callee !== "function") throw ...; let args = ...
callWithCallee(node, rs, callee) ==
    IF ~callee.ok THEN callee
    ELSE IF callee.val.t # "function" THEN Raised("Call of non-function", callee.c)
    ELSE callWithArguments(callee.val.v, rs,
             evalArguments(node.arguments, 1, <<>>, callee.c, rs))

\* let callee = this.eval(node.callee)
evalCall(node, c, rs) == callWithCallee(node, rs, eval(node.callee, c, rs))

applyOperator(operator, left, right, c) ==
    CASE operator = "+" -> Returned(JsAdd(left, right), c)
      [] operator = "-" -> Returned(NumSub(ToNumber(left), ToNumber(right)), c)
      [] operator = "*" -> Returned(NumMul(ToNumber(left), ToNumber(right)), c)
      [] operator = "/" -> Returned(NumDiv(ToNumber(left), ToNumber(right)), c)
      [] operator = "==" -> Returned(Bool(StrictEquals(left, right)), c)
      [] operator = "!=" -> Returned(Bool(~StrictEquals(left, right)), c)
      [] OTHER -> Raised("Unsupported operator " \o operator, c)

\* switch (node.operator)
binaryWithRight(operator, left, right) ==
    IF ~right.ok THEN right
    ELSE applyOperator(operator, left, right.val, right.c)

\* let right = this.eval(node.right)
binaryWithLeft(node, rs, left) ==
    IF ~left.ok THEN left
    ELSE binaryWithRight(node.operator, left.val, eval(node.right, left.c, rs))

\* let left = this.eval(node.left)
evalBinary(node, c, rs) == binaryWithLeft(node, rs, eval(node.left, c, rs))

\* a declaration that created the binding before it evaluated the
\* initializer would leave the name bound when the initializer throws
declareBeforeValue(name, val) ==
    IF ~val.ok
    THEN Raised(val.err, [val.c EXCEPT !.env = Bind(@, name, Undefined)])
    ELSE Returned(Null, [val.c EXCEPT !.env = Bind(@, name, val.val)])

\* this.env[node.name] = val; return null
declareWithValue(name, val) ==
    IF ~val.ok THEN val
    ELSE Returned(Null, [val.c EXCEPT !.env = Bind(@, name, val.val)])

\* let val = this.eval(node.expr)
evalVarDecl(node, c, rs) == declareWithValue(node.name, eval(node.expr, c, rs))

eval(node, c, rs) ==
    CASE node.type \in {"number", "string", "literal"} -> Returned(node.value, c)
      [] node.type = "variable" -> evalVariable(node, c, rs)
      [] node.type = "call" -> evalCall(node, c, rs)
      [] node.type = "binary" -> evalBinary(node, c, rs)
      [] node.type = "var_decl" -> evalVarDecl(node, c, rs)
      [] node.type = "expr_stmt" -> eval(node.expr, c, rs)
      [] OTHER -> Raised("Unknown node type " \o node.type, c)

(***************************************************************************)
(* The inputs.  A document is the sequence of the texts of its <flux>      *)
(* tags.  parser is also a function of any token array, so a second kind   *)
(* of initial state hands it a token array directly.                       *)
(***************************************************************************)
MaxChars == 3
MaxStmts == 3
MaxHostCalls == 1

SeqsUpTo(S, n) == UNION {[1..k -> S] : k \in 0..n}

RECURSIVE Concat(_)
\* the concatenation of a sequence of strings
Concat(strs) == IF Len(strs) = 0 THEN "" ELSE Head(strs) \o Concat(Tail(strs))

RECURSIVE JoinWith(_, _)
JoinWith(strs, sep) ==
    IF Len(strs) = 0 THEN ""
    ELSE IF Len(strs) = 1 THEN strs[1]
    ELSE strs[1] \o sep \o JoinWith(Tail(strs), sep)

\* every text of at most MaxChars characters over these characters, as the
\* only tag of a document
LexChars == {"1", "a", "=", "!", "<", "@", "\"", ";"}
CharDocs == {<<Concat(cs)>> : cs \in SeqsUpTo(LexChars, MaxChars)}

\* statements of scripts: declarations, references, calls of built-ins,
\* calls with failing callees and arguments, and one that does not parse
Statements ==
    {"let x = 1;", "var print = x;", "print(x);", "x(print(3), unset);",
     "print(print(4), unset, print(5));", "upper(x);", "let = ;"}

RECURSIVE SplitAt(_, _, _)
\* the statements ss cut into tags after the positions in cuts
SplitAt(ss, cuts, k) ==
    IF k > Len(ss) THEN <<>>
    ELSE LET rest == SplitAt(ss, cuts, k + 1)
         IN  IF k = Len(ss) \/ k \in cuts THEN <<ss[k]>> \o rest
             ELSE <<ss[k] \o " " \o Head(rest)>> \o Tail(rest)

StmtDocs ==
    {SplitAt(ss, cuts, 1) :
        ss \in SeqsUpTo(Statements, MaxStmts), cuts \in SUBSET (1..(MaxStmts - 1))}

\* one call of each registry name as the only statement
CallArguments == {"", "1", "\"ab\""}
CallDocs == {<<name \o "(" \o arg \o ");">> : name \in BuiltInNames, arg \in CallArguments}

\* a declaration, possibly after an earlier declaration of the same name,
\* followed by a reference to the name
DeclNames == {"x", "print", "int", "if"}
DeclDocs ==
    {<<k \o " " \o x \o " = 1; " \o x \o ";">> :
        k \in DeclarationKinds, x \in DeclNames}
    \cup
    {<<k1 \o " " \o x \o " = 1; " \o k2 \o " " \o x \o " = 2; " \o x \o ";">> :
        k1 \in DeclarationKinds, k2 \in DeclarationKinds, x \in DeclNames}

SampleDocs == {<<"1+2*3;">>, <<"1 == 1;">>, <<"f(1,));">>, <<"1 + ;">>, <<>>}

Documents == CharDocs \cup StmtDocs \cup CallDocs \cup DeclDocs \cup SampleDocs

\* token arrays  a op1 b op2 c ;
OperandTokens == {"2", "3", "u", "v"}
TokenArrays ==
    {<<a, op1, b, op2, c, ";">> :
        a \in OperandTokens, b \in OperandTokens, c \in OperandTokens,
        op1 \in BinaryOperators, op2 \in BinaryOperators}

\* what Math.random and prompt may answer
HostValues == {Whole(0), Num(1, 2), Null, Str("7")}
HostAnswers == SeqsUpTo(HostValues, MaxHostCalls)

(***************************************************************************)
(* State.                                                                  *)
(*   fluxTags  document.querySelectorAll('flux'), as their textContent     *)
(*   tag       the index forEach is at                                     *)
(*   pc        where the handler is: "load", then per tag "lex", "parse",  *)
(*             "seed", "eval", and "end" after the last tag                *)
(*   registry  builtInFunctions                                            *)
(*   tokens, ast, env, stmt   the locals of executeFlux: the token array,  *)
(*             the statement list, interpreter.env (empty while there is   *)
(*             no interpreter) and the index of the for-of loop            *)
(*   trace     the registry functions called in this run, with arguments   *)
(*   answers   the host answers consumed in this run                       *)
(*   value     what interpreter.eval returned for the last statement       *)
(*   errors    the console.error lines                                     *)
(*   runs      one record per finished run of executeFlux                  *)
(***************************************************************************)
VARIABLES fluxTags, tag, pc, registry, tokens, ast, env, stmt, trace, answers,
          value, errors, runs

vars == <<fluxTags, tag, pc, registry, tokens, ast, env, stmt, trace, answers,
          value, errors, runs>>

NoEnv == <<>>

Locals(p, t) ==
    /\ pc = p
    /\ tokens = t
    /\ ast = <<>>
    /\ env = NoEnv
    /\ stmt = 0
    /\ trace = <<>>
    /\ answers = <<>>
    /\ value = Undefined

Init ==
    /\ tag = 1
    /\ registry = builtInFunctions
    /\ errors = <<>>
    /\ runs = <<>>
    /\ \/ fluxTags \in Documents /\ Locals("load", <<>>)
       \/ \E t \in TokenArrays : fluxTags = <<>> /\ Locals("parse", t)

\* the window's DOMContentLoaded event: forEach starts on the first tag
Loaded ==
    /\ pc = "load"
    /\ pc' = IF Len(fluxTags) > 0 THEN "lex" ELSE "end"
    /\ UNCHANGED <<fluxTags, tag, registry, tokens, ast, env, stmt, trace,
                   answers, value, errors, runs>>

\* executeFlux returns or throws into the handler's catch: the run is
\* recorded, its locals are gone and forEach moves to the next tag
EndRun(ok, err, finalEnv, finalTrace, finalAnswers, started, val) ==
    /\ runs' = Append(runs, [tokens |-> tokens, ok |-> ok, err |-> err,
                             env |-> finalEnv, trace |-> finalTrace,
                             answers |-> finalAnswers, started |-> started,
                             value |-> val])
    /\ errors' = IF ok THEN errors ELSE Append(errors, err)
    /\ tag' = tag + 1
    /\ pc' = IF tag + 1 <= Len(fluxTags) THEN "lex" ELSE "end"
    /\ tokens' = <<>>
    /\ ast' = <<>>
    /\ env' = NoEnv
    /\ stmt' = 0
    /\ trace' = <<>>
    /\ answers' = <<>>
    /\ value' = Undefined
    /\ UNCHANGED <<fluxTags, registry>>

\* const tokens = lexer(code)
Lex ==
    /\ pc = "lex"
    /\ tokens' = lexer(fluxTags[tag])
    /\ pc' = "parse"
    /\ UNCHANGED <<fluxTags, tag, registry, ast, env, stmt, trace, answers,
                   value, errors, runs>>

\* what follows parser(tokens): the statement list, or the throw leaving
\* executeFlux
Parsing(p) ==
    IF p.ok
    THEN /\ ast' = p.node.statements
         /\ pc' = "seed"
         /\ UNCHANGED <<fluxTags, tag, registry, tokens, env, stmt, trace,
                        answers, value, errors, runs>>
    ELSE EndRun(FALSE, p.err, env, trace, answers, stmt, value)

RECURSIVE parsedPrefix(_, _, _)
\* the statements that parse before the first one that does not
parsedPrefix(toks, pos, statements) ==
    IF AtEnd(toks, pos) THEN statements
    ELSE LET st == parseStatement(toks, pos)
         IN  IF ~st.ok THEN statements
             ELSE parsedPrefix(toks, st.pos, Append(statements, st.node))

\* a run that evaluated each statement as soon as it was parsed would
\* evaluate the statements before a syntax error
ParseStatementByStatement ==
    /\ pc = "parse"
    /\ ast' = parsedPrefix(tokens, 1, <<>>)
    /\ pc' = "seed"
    /\ UNCHANGED <<fluxTags, tag, registry, tokens, env, stmt, trace,
                   answers, value, errors, runs>>

\* const ast = parser(tokens)
Parse ==
    /\ pc = "parse"
    /\ Parsing(parser(tokens))

\* one interpreter shared by the runs would keep the bindings of the run
\* before
RetainedEnv ==
    LET last == IF Len(runs) = 0 THEN NoEnv ELSE runs[Len(runs)].env
    IN  [fn \in DOMAIN registry \cup DOMAIN last |->
            IF fn \in DOMAIN last THEN last[fn] ELSE registry[fn]]

\* interpreter.env after  new Interpreter()  and the loop that copies the
\* registry into it
InterpreterEnv == [fn \in DOMAIN registry |-> registry[fn]]

Seed ==
    /\ pc = "seed"
    /\ env' = InterpreterEnv
    /\ stmt' = 1
    /\ pc' = "eval"
    /\ UNCHANGED <<fluxTags, tag, registry, tokens, ast, trace, answers,
                   value, errors, runs>>

\* the context a statement is evaluated in
Context == [env |-> env, trace |-> trace, used |-> 0, answered |-> TRUE]

\* what follows interpreter.eval(stmt): the next iteration, or the throw
\* leaving executeFlux
StatementDone(rs, r) ==
    /\ r.c.answered
    /\ r.c.used = Len(rs)
    /\ IF r.ok
       THEN /\ env' = r.c.env
            /\ trace' = r.c.trace
            /\ answers' = answers \o rs
            /\ value' = r.val
            /\ stmt' = stmt + 1
            /\ UNCHANGED <<fluxTags, tag, pc, registry, tokens, ast, errors, runs>>
       ELSE EndRun(FALSE, r.err, r.c.env, r.c.trace, answers \o rs, stmt, value)

\* one iteration of  for (const stmt of ast) interpreter.eval(stmt)
EvalStmt ==
    /\ pc = "eval"
    /\ stmt <= Len(ast)
    /\ \E rs \in HostAnswers : StatementDone(rs, eval(ast[stmt], Context, rs))

\* the loop is over: executeFlux returns
Return ==
    /\ pc = "eval"
    /\ stmt > Len(ast)
    /\ EndRun(TRUE, "", env, trace, answers, stmt - 1, value)

(***************************************************************************)
(* executeFlux(code) as a function of the text and of the host's answers   *)
(* to the whole run: the record of the run.                                *)
(***************************************************************************)
RECURSIVE runStatements(_, _, _, _, _)

runNext(statements, k, rs, val, r) ==
    IF ~r.ok
    THEN [ok |-> FALSE, err |-> r.err, env |-> r.c.env, trace |-> r.c.trace,
          started |-> k, value |-> val]
    ELSE runStatements(statements, k + 1, r.c, rs, r.val)

\* for (const stmt of ast) interpreter.eval(stmt)
runStatements(statements, k, c, rs, val) ==
    IF k > Len(statements)
    THEN [ok |-> TRUE, err |-> "", env |-> c.env, trace |-> c.trace,
          started |-> k - 1, value |-> val]
    ELSE runNext(statements, k, rs, val, eval(statements[k], c, rs))

runParsed(toks, rs, p) ==
    [tokens |-> toks, answers |-> rs] @@
    IF ~p.ok
    THEN [ok |-> FALSE, err |-> p.err, env |-> NoEnv, trace |-> <<>>,
          started |-> 0, value |-> Undefined]
    ELSE runStatements(p.node.statements, 1,
                       [env |-> builtInFunctions, trace |-> <<>>, used |-> 0,
                        answered |-> TRUE], rs, Undefined)

runTokens(toks, rs) == runParsed(toks, rs, parser(toks))

executeFlux(code, rs) == runTokens(lexer(code), rs)

Next == Loaded \/ Lex \/ Parse \/ Seed \/ EvalStmt \/ Return

Spec == Init /\ [][Next]_vars

(***************************************************************************)
(* Properties of the program, by the number of the claim each one states.  *)
(***************************************************************************)
Range(s) == {s[i] : i \in 1..Len(s)}

\* the run of the k-th tag is finished and its text is src
RanText(k, src) == k <= Len(runs) /\ k <= Len(fluxTags) /\ fluxTags[k] = src

\* a run is at or past parser(tokens), on the text of a tag
Lexed == pc \in {"parse", "seed", "eval"} /\ tag <= Len(fluxTags)

\* interpreter.env right after construction
SeededContext ==
    [env |-> builtInFunctions, trace |-> <<>>, used |-> 0, answered |-> TRUE]

RECURSIVE NonSpace(_, _)
\* the characters of s from index i on that are not whitespace
NonSpace(s, i) ==
    IF i > Len(s) THEN ""
    ELSE (IF CharAt(s, i) \in Spaces THEN "" ELSE CharAt(s, i)) \o NonSpace(s, i + 1)

-----------------------------------------------------------------------------
\* <kind> x = 1; x;
IsDeclThenRef(t) ==
    /\ Len(t) = 7
    /\ t[1] \in DeclarationKinds
    /\ IsIdentifier(t[2])
    /\ SubSeq(t, 3, 7) = <<"=", "1", ";", t[2], ";">>

\* <kind> x = 1; <kind> x = 2; x;
IsRedeclThenRef(t) ==
    /\ Len(t) = 12
    /\ t[1] \in DeclarationKinds
    /\ IsIdentifier(t[2])
    /\ SubSeq(t, 3, 5) = <<"=", "1", ";">>
    /\ t[6] \in DeclarationKinds
    /\ SubSeq(t, 7, 12) = <<t[2], "=", "2", ";", t[2], ";">>

\* C1: for every declaration kind and every name the parser accepts as a
\* declaration name, a reference after  <kind> x = 1;  evaluates to 1 and
\* the run succeeds, and after a second declaration  <kind> x = 2;  of the
\* same name the reference evaluates to 2.
C1_ReferenceYieldsDeclaredValue ==
    \A k \in 1..Len(runs) :
        /\ IsDeclThenRef(runs[k].tokens)
              => runs[k].ok /\ runs[k].value = Whole(1)
        /\ IsRedeclThenRef(runs[k].tokens)
              => runs[k].ok /\ runs[k].value = Whole(2)

-----------------------------------------------------------------------------
\* an operand of the token sequence  a op1 b op2 c ;
IsOperand(tok) == ~isKeyword(tok) /\ (IsIdentifier(tok) \/ AllDigits(tok))
OperandNode(tok) == parsePrimary(<<tok>>, 1).node

IsFlat(t) ==
    /\ Len(t) = 6
    /\ t[6] = ";"
    /\ t[2] \in BinaryOperators
    /\ t[4] \in BinaryOperators
    /\ \A i \in {1, 3, 5} : IsOperand(t[i])

\* binary(op2, binary(op1, a, b), c) as an expression statement
LeftNested(t) ==
    [type |-> "expr_stmt",
     expr |-> [type |-> "binary", operator |-> t[4],
               left |-> [type |-> "binary", operator |-> t[2],
                         left |-> OperandNode(t[1]),
                         right |-> OperandNode(t[3])],
               right |-> OperandNode(t[5])]]

\* a, then b, then op1, then c, then op2; the first error ends it
AppliedInOrder(t, c0) ==
    LET a == eval(OperandNode(t[1]), c0, <<>>)
        b == eval(OperandNode(t[3]), a.c, <<>>)
        ab == applyOperator(t[2], a.val, b.val, b.c)
        c == eval(OperandNode(t[5]), ab.c, <<>>)
    IN  IF ~a.ok THEN a
        ELSE IF ~b.ok THEN b
        ELSE IF ~c.ok THEN c
        ELSE applyOperator(t[4], ab.val, c.val, c.c)

HasOutcome(run, r) ==
    /\ run.started = 1
    /\ run.ok = r.ok
    /\ run.err = r.err
    /\ r.ok => run.value = r.val

\* C2: a token sequence  a op1 b op2 c ;  with op1, op2 among + - * / == !=
\* parses to binary(op2, binary(op1, a, b), c) and the run's outcome is that
\* of evaluating a, b, op1, c, op2 in this order; the text "1+2*3;" has the
\* tokens 1 + 2 * 3 ; and evaluates to 9.
C2_FlatLeftAssociative ==
    /\ pc \in {"seed", "eval"} /\ IsFlat(tokens) => ast = <<LeftNested(tokens)>>
    /\ \A k \in 1..Len(runs) :
          /\ IsFlat(runs[k].tokens)
                => HasOutcome(runs[k], AppliedInOrder(runs[k].tokens, SeededContext))
          /\ RanText(k, "1+2*3;")
                => /\ runs[k].tokens = <<"1", "+", "2", "*", "3", ";">>
                   /\ runs[k].ok
                   /\ runs[k].value = Whole(9)

\* the text "1+2*3;" has been run and has ended with the value 9
C2_Witness ==
    /\ RanText(1, "1+2*3;")
    /\ runs[1].tokens = <<"1", "+", "2", "*", "3", ";">>
    /\ runs[1].value = Whole(9)

-----------------------------------------------------------------------------
\* C3: the token array handed to the parser omits no character of the text
\* other than whitespace: a text with a character that matches no
\* alternative of the token pattern never yields a token array.
C3_NoCharacterOmitted ==
    Lexed => Concat(tokens) = NonSpace(fluxTags[tag], 1)

-----------------------------------------------------------------------------
TwoCharOperators == {"==", "!=", "<=", ">=", "&&", "||"}
OperatorChars == {"=", "!", "<", ">", "&", "|"}

\* src[i..i+1] is a two-character operator with no operator character next
\* to it
StandsAlone(src, i) ==
    /\ SubSeq(src, i, i + 1) \in TwoCharOperators
    /\ CharAt(src, i - 1) \notin OperatorChars
    /\ CharAt(src, i + 2) \notin OperatorChars

\* C4: a two-character operator of a text without string literals is one
\* token of the token array, and the text "1 == 1;" runs to the value true.
C4_TwoCharOperatorIsOneToken ==
    /\ Lexed /\ "\"" \notin {CharAt(fluxTags[tag], i) : i \in 1..Len(fluxTags[tag])}
          => \A i \in 1..(Len(fluxTags[tag]) - 1) :
                StandsAlone(fluxTags[tag], i)
                    => SubSeq(fluxTags[tag], i, i + 1) \in Range(tokens)
    /\ \A k \in 1..Len(runs) :
          RanText(k, "1 == 1;") => runs[k].ok /\ runs[k].value = Bool(TRUE)

-----------------------------------------------------------------------------
\* the statements before index k of the run in progress, run from a fresh
\* interpreter with the host answers consumed so far
PrefixRun(k) == runStatements(SubSeq(ast, 1, k - 1), 1, SeededContext, answers, Undefined)

EnvIsOfPrefix(p) == p.ok /\ p.env = env /\ p.trace = trace

FailsWith(r, err) == ~r.ok /\ r.err = err

\* C5: while statement k is next, the environment is the one statements
\* 1..k-1 produced; and a step in which statement k raises an error ends
\* the run with that error as its outcome, at statement k, with exactly the
\* environment the statement was started in.
C5_ErrorAbortsRun ==
    /\ [](pc = "eval" => EnvIsOfPrefix(PrefixRun(stmt)))
    /\ [][(pc = "eval" /\ Len(runs') > Len(runs) /\ ~runs'[Len(runs')].ok)
            => /\ stmt <= Len(ast)
               /\ runs'[Len(runs')].started = stmt
               /\ runs'[Len(runs')].env = env
               /\ errors' = Append(errors, runs'[Len(runs')].err)
               /\ \E rs \in HostAnswers :
                     FailsWith(eval(ast[stmt], Context, rs), runs'[Len(runs')].err)
               /\ pc' \in {"lex", "end"}
               /\ stmt' = 0
               /\ env' = NoEnv]_vars

\* a built-in failed in the second statement of a run, and the binding of
\* the first statement is in the environment the run ended with; another
\* run ended at a call of a non-function
C5_Witness ==
    \E k \in 1..Len(runs) :
        /\ ~runs[k].ok
        /\ runs[k].started = 2
        /\ runs[k].err \in {TypeError, "Call of non-function"}
        /\ "x" \in DOMAIN runs[k].env
        /\ runs[k].env["x"] = Whole(1)

-----------------------------------------------------------------------------
RECURSIVE CallNodes(_)
\* the call nodes of a tree
CallNodes(node) ==
    CASE node.type = "call" ->
             {node} \cup CallNodes(node.callee)
                    \cup UNION {CallNodes(node.arguments[i]) :
                                   i \in 1..Len(node.arguments)}
      [] node.type = "binary" -> CallNodes(node.left) \cup CallNodes(node.right)
      [] node.type \in {"var_decl", "expr_stmt"} -> CallNodes(node.expr)
      [] OTHER -> {}

RECURSIVE ArgumentContext(_, _, _, _)
\* the context after arguments 1..j of call node n, each evaluated in the
\* context the one before it left, the first in c
ArgumentContext(n, j, c, rs) ==
    IF j = 0 THEN c
    ELSE eval(n.arguments[j], ArgumentContext(n, j - 1, c, rs), rs).c

ArgumentResult(n, j, c, rs) ==
    eval(n.arguments[j], ArgumentContext(n, j - 1, c, rs), rs)

CallInOrder(n, c, rs) ==
    LET callee == eval(n.callee, c, rs)
        r == eval(n, c, rs)
        Failing == {j \in 1..Len(n.arguments) :
                       ~ArgumentResult(n, j, callee.c, rs).ok}
        first == CHOOSE j \in Failing : \A i \in Failing : j <= i
        values == [j \in 1..Len(n.arguments) |->
                      ArgumentResult(n, j, callee.c, rs).val]
        last == ArgumentContext(n, Len(n.arguments), callee.c, rs)
    IN  IF ~callee.ok THEN r = callee
        ELSE IF callee.val.t # "function"
        THEN r = Raised("Call of non-function", callee.c)
        ELSE IF Failing # {} THEN r = ArgumentResult(n, first, callee.c, rs)
        ELSE /\ r = Invoke(callee.val.v, values, last, rs)
             /\ r.c.trace = Append(last.trace, [fn |-> callee.val.v, args |-> values])

\* C6: for every call node of the statement that is next, and every host
\* answer: the result is the callee's error if the callee fails, else the
\* not-callable error in the context the callee left (no argument
\* evaluated) if its value is no function, else the error of the first
\* failing argument with the arguments evaluated left to right, else that
\* of one invocation with the argument values in order.  The run of
\* "let x = 1; x(print(3), unset);" ends not-callable and has printed
\* nothing.
C6_CallOrder ==
    /\ pc = "eval" /\ stmt <= Len(ast)
          => \A n \in CallNodes(ast[stmt]) : \A rs \in HostAnswers :
                CallInOrder(n, Context, rs)
    /\ \A k \in 1..Len(runs) :
          RanText(k, "let x = 1; x(print(3), unset);")
              => /\ FailsWith(runs[k], "Call of non-function")
                 /\ runs[k].trace = <<>>

\* one run ended not-callable with nothing printed, and another ended at
\* its second argument after its first argument had printed
C6_Witness ==
    /\ RanText(1, "let x = 1; x(print(3), unset);")
    /\ runs[1].err = "Call of non-function"
    /\ RanText(2, "print(print(4), unset, print(5));")
    /\ runs[2].err = "Undefined variable 'unset'"
    /\ Len(runs[2].trace) = 1

-----------------------------------------------------------------------------
\* name ( ) ;  or  name ( literal ) ;
IsLiteralCall(t) ==
    /\ Len(t) \in {4, 5}
    /\ t[2] = "("
    /\ t[Len(t) - 1] = ")"
    /\ t[Len(t)] = ";"
    /\ Len(t) = 5 => AllDigits(t[3]) \/ CharAt(t[3], 1) = "\""

\* C7: before the first statement runs every registry name is bound to its
\* registered function, and a run whose first statement is name(); or
\* name(literal); for a registry name calls that function first.
C7_BuiltInsCallable ==
    /\ pc = "eval" /\ stmt = 1
          => \A name \in BuiltInNames :
                name \in DOMAIN env /\ env[name] = builtInFunctions[name]
    /\ \A k \in 1..Len(runs) :
          IsLiteralCall(runs[k].tokens) /\ runs[k].tokens[1] \in BuiltInNames
              => /\ Len(runs[k].trace) >= 1
                 /\ runs[k].trace[1].fn = runs[k].tokens[1]

-----------------------------------------------------------------------------
RECURSIVE VariableNames(_)
\* the names of the variable nodes of a tree
VariableNames(node) ==
    CASE node.type = "variable" -> {node.name}
      [] node.type = "call" ->
             VariableNames(node.callee)
                 \cup UNION {VariableNames(node.arguments[i]) :
                                i \in 1..Len(node.arguments)}
      [] node.type = "binary" ->
             VariableNames(node.left) \cup VariableNames(node.right)
      [] node.type \in {"var_decl", "expr_stmt"} -> VariableNames(node.expr)
      [] OTHER -> {}

\* C9: every variable node of a parsed program is named by an identifier
\* that is no keyword, and the texts "1 + ;" and "f(1,));" fail in the
\* parser.
C9_VariableNodesAreIdentifiers ==
    /\ pc \in {"seed", "eval"}
          => \A i \in 1..Len(ast) : \A name \in VariableNames(ast[i]) :
                IsIdentifier(name) /\ ~isKeyword(name)
    /\ \A k \in 1..Len(runs) :
          RanText(k, "1 + ;") \/ RanText(k, "f(1,));")
              => ~runs[k].ok /\ runs[k].started = 0

-----------------------------------------------------------------------------
\* C8: the runs so far are those of the tags before the current one, in
\* document order; each has the record executeFlux gives for its text
\* alone; after the last tag every tag has been run; the environment
\* the first statement runs in is the registry's, and the registry is as
\* it was constructed.
C8_RunsIndependent ==
    /\ Len(runs) = tag - 1
    /\ pc = "end" /\ fluxTags # <<>> => Len(runs) = Len(fluxTags)
    /\ \A k \in 1..Len(runs) :
          k <= Len(fluxTags) => runs[k] = executeFlux(fluxTags[k], runs[k].answers)
    /\ pc = "eval" /\ stmt = 1 => env = builtInFunctions
    /\ registry = builtInFunctions

\* three tags have run: the first failed, the second declared x, and the
\* third did not see x
C8_Witness ==
    /\ pc = "end"
    /\ Len(runs) = 3
    /\ ~runs[1].ok
    /\ runs[2].ok
    /\ "x" \in DOMAIN runs[2].env
    /\ runs[3].err = "Undefined variable 'x'"

-----------------------------------------------------------------------------
FailedInParser(run, p) ==
    ~p.ok => /\ FailsWith(run, p.err)
             /\ run.started = 0
             /\ run.trace = <<>>
             /\ run.env = NoEnv

WholeProgram(p) == p.ok /\ ast = p.node.statements

\* C10: until the parser has returned there is no interpreter, no
\* statement has been started and no registry function called; when the
\* first statement is evaluated the statement list is that of the whole
\* token array, which is that of the whole text; and a run whose token
\* array does not parse has started no statement, called nothing and bound
\* nothing.
C10_ParsedBeforeEvaluated ==
    /\ pc \in {"load", "lex", "parse", "seed"}
          => env = NoEnv /\ trace = <<>> /\ stmt = 0
    /\ pc \in {"seed", "eval"} => WholeProgram(parser(tokens))
    /\ Lexed => tokens = lexer(fluxTags[tag])
    /\ \A k \in 1..Len(runs) : FailedInParser(runs[k], parser(runs[k].tokens))

\* a run whose third statement does not parse has ended with the parser's
\* error, with nothing printed
C10_Witness ==
    /\ RanText(1, "let x = 1; print(x); let = ;")
    /\ runs[1].err = "Invalid variable name"
    /\ runs[1].trace = <<>>

====
